---------------------------- MODULE Spec2Model ----------------------------
(***************************************************************************)
(* Model of splade/hf/trainers.py: the four trainers' compute_loss and log *)
(* hooks (RerankerTrainer, RerankerTrainer2, DistilTrainer,                *)
(* FirstStageTrainer) and BaseTrainer._load_from_checkpoint.               *)
(*                                                                         *)
(* Tensors are integer arrays.  Scalars that the code obtains by float     *)
(* arithmetic are kept exact:                                              *)
(*   - a quotient is an extended rational [n, d]: d > 0 is the fraction    *)
(*     n/d in lowest terms, [n |-> 1, d |-> 0] is +inf (x/0 with x > 0)    *)
(*     and [n |-> 0, d |-> 0] is nan (0/0, the mean over no element);      *)
(*   - a softmax cross entropy is kept as the exponents of its             *)
(*     log-sum-exp: -log softmax(row)[0] = log sum_j exp(row[j] - row[0]); *)
(*   - a mean of recorded metric values is the bag of the values summed    *)
(*     together with their count.                                          *)
(***************************************************************************)
EXTENDS Integers, Sequences, FiniteSets, Bags, TLC

(***************************************************************************)
(* Bounds of the model.                                                    *)
(***************************************************************************)
\* the largest n_negatives of a trainer
MaxNeg == 1
\* the most compute_loss calls and the most log calls of one run
MaxSteps == 2
MaxLogs == 2
\* the most candidate documents of one batch
MaxCands == 4
\* the batch sizes drawn
BatchSizes == {1, 2}

\* docs.size(2): the width of a representation vector, fixed by the encoder
Dim == 1
\* the entries of the tensors the model draws
Weights == {0, 1}
TeacherVals == {0, 1}

(***************************************************************************)
(* Exact arithmetic.                                                       *)
(***************************************************************************)
Abs(x) == IF x < 0 THEN -x ELSE x

RECURSIVE GCD(_, _)
GCD(a, b) == IF b = 0 THEN a ELSE GCD(b, a % b)

NaN == [n |-> 0, d |-> 0]
Inf == [n |-> 1, d |-> 0]

\* the float quotient a/b of an integer a by an integer b >= 0
Quot(a, b) ==
    IF b = 0 THEN (IF a = 0 THEN NaN ELSE Inf)
    ELSE LET g == GCD(Abs(a), b) IN [n |-> a \div g, d |-> b \div g]

IsNaN(x) == x.d = 0 /\ x.n = 0
IsInf(x) == x.d = 0 /\ x.n # 0
IsZero(x) == x.d > 0 /\ x.n = 0

RatAdd(x, y) ==
    IF IsNaN(x) \/ IsNaN(y) THEN NaN
    ELSE IF IsInf(x) \/ IsInf(y) THEN Inf
    ELSE Quot(x.n * y.d + y.n * x.d, x.d * y.d)

\* x * k and x / k for an integer k > 0
RatScale(k, x) == IF x.d = 0 THEN x ELSE Quot(k * x.n, x.d)
RatDiv(x, k) == IF k = 0 THEN NaN ELSE IF x.d = 0 THEN x ELSE Quot(x.n, x.d * k)

RECURSIVE SumInts(_)
SumInts(s) == IF s = << >> THEN 0 ELSE Head(s) + SumInts(Tail(s))

RECURSIVE SumRats(_)
SumRats(s) == IF s = << >> THEN Quot(0, 1) ELSE RatAdd(Head(s), SumRats(Tail(s)))

\* torch.mean over a dimension holding rationals; nan over no element
MeanRats(s) == RatDiv(SumRats(s), Len(s))

RECURSIVE Flatten(_)
Flatten(ss) == IF ss = << >> THEN << >> ELSE Head(ss) \o Flatten(Tail(ss))

(***************************************************************************)
(* Tensor operations.                                                      *)
(***************************************************************************)
\* flat.view(-1, cols)
View(flat, cols) ==
    [i \in 1..(Len(flat) \div cols) |-> [j \in 1..cols |-> flat[(i - 1) * cols + j]]]

\* the view raises unless the element count is a multiple of cols
ViewOk(flat, cols) == Len(flat) % cols = 0

\* m[:, :1] and m[:, 1:]
FirstCol(m) == [i \in 1..Len(m) |-> SubSeq(m[i], 1, 1)]
RestCols(m) == [i \in 1..Len(m) |-> SubSeq(m[i], 2, Len(m[i]))]

\* a - b with a of one column broadcast over the columns of b
BroadcastSub(a, b) == [i \in 1..Len(b) |-> [j \in 1..Len(b[i]) |-> a[i][1] - b[i][j]]]

Dot(u, v) == SumInts([k \in 1..Len(u) |-> u[k] * v[k]])

\* torch.bmm(queries, permute(docs, [0,2,1])).squeeze(1)
Bmm(queries, docs) ==
    [i \in 1..Len(queries) |-> [j \in 1..Len(docs[i]) |-> Dot(queries[i], docs[i][j])]]

\* docs.reshape(-1, docs.size(2)): every document vector of the batch
AllDocs(docs) == Flatten(docs)

\* (mutant) every document vector taken as an in-batch negative
NegativesAll(docs) == Flatten(docs)

\* docs[:, 1:, :].reshape(-1, docs.size(2)): every negative document vector
Negatives(docs) == Flatten(RestCols(docs))

\* torch.matmul(queries.squeeze(1), negatives.T)
MatMul(queries, negs) ==
    [i \in 1..Len(queries) |-> [j \in 1..Len(negs) |-> Dot(queries[i], negs[j])]]

\* torch.cat([a, b], dim=1)
Cat(a, b) == [i \in 1..Len(a) |-> a[i] \o b[i]]

(***************************************************************************)
(* Loss functions.                                                         *)
(***************************************************************************)
\* -log_softmax(row)[0], as the exponents of log(sum_j exp(row[j] - row[0]))
NegLogSoftmax0(row) == [j \in 1..Len(row) |-> row[j] - row[1]]

\* torch.nn.CrossEntropyLoss()(scores, zeros): the mean over the rows
CrossEntropyLoss(scores) ==
    [tag |-> "ce", rows |-> [i \in 1..Len(scores) |-> NegLogSoftmax0(scores[i])]]

\* the cross entropy is 0.0 exactly when every row's log-sum-exp is log(exp(0))
CeIsZero(ce) ==
    /\ Len(ce.rows) > 0
    /\ \A i \in 1..Len(ce.rows) : ce.rows[i] = <<0>>

\* MSELoss(reduction="none")(a, b).mean(dim=1).mean(dim=0)
MseLossMean(a, b) ==
    MeanRats([i \in 1..Len(a) |->
        MeanRats([j \in 1..Len(a[i]) |-> Quot((a[i][j] - b[i][j]) * (a[i][j] - b[i][j]), 1)])])

\* softmax and log_softmax are invariant under a shift of the row: a row
\* stands for its distribution by its offsets from the first entry
SoftmaxOf(row) == [j \in 1..Len(row) |-> row[j] - row[1]]

\* KLDivLoss(reduction="none")(log_softmax(student), softmax(teacher)).sum(dim=1).mean(dim=0)
KlDivLossMean(student, teacher) ==
    [tag |-> "kld",
     rows |-> [i \in 1..Len(student) |->
                 <<SoftmaxOf(student[i]), SoftmaxOf(teacher[i])>>]]

\* BaseTrainer._flops: sum over the dimensions of (mean over the rows of |x|)^2
Flops(rows) ==
    SumRats([k \in 1..Dim |->
        LET col == SumInts([i \in 1..Len(rows) |-> Abs(rows[i][k])])
        IN  Quot(col * col, Len(rows) * Len(rows))])

\* BaseTrainer._L1: mean over the rows of the sum of |x|
L1(rows) ==
    MeanRats([i \in 1..Len(rows) |->
        Quot(SumInts([k \in 1..Dim |-> Abs(rows[i][k])]), 1)])

\* BaseTrainer._L0: mean over the rows of the count of nonzero entries
L0(rows) ==
    MeanRats([i \in 1..Len(rows) |->
        Quot(Cardinality({k \in 1..Dim : rows[i][k] # 0}), 1)])

\* 1/(torch.sum(queries)**2) + 1/(torch.sum(docs)**2)
AntiZero(queries, docs) ==
    LET sq == SumInts(Flatten(queries))
        sd == SumInts(Flatten(AllDocs(docs)))
    IN  RatAdd(Quot(1, sq * sq), Quot(1, sd * sd))


(***************************************************************************)
(* State.                                                                  *)
(***************************************************************************)
VARIABLES
    kind,              \* the trainer class of the instance
    n_negatives,       \* self.n_negatives
    mse_margin,        \* self.mse_margin
    splade_doc,        \* self.splade_doc
    dense,             \* self.dense
    lambda_d,          \* self.lambda_d = self.args.l0d
    lambda_q,          \* self.lambda_q = self.args.l0q
    state_epoch,       \* self.state.epoch, kept by the training engine
    last_celoss,       \* self.last_celoss
    last_distilloss,   \* self.last_distilloss
    last_flops,        \* self.last_flops
    last_anti_zero,    \* self.last_anti_zero
    last_docs,         \* self.last_docs
    last_queries,      \* self.last_queries
    step,              \* self.step
    log_history,       \* self.state.log_history
    inputs,            \* the batch handed to compute_loss
    model_kwargs,      \* the keyword arguments of the last model(**inputs) call
    ret,               \* what the last call returned
    raised,            \* the exception the last call raised, or "none"
    calls,             \* history: the completed calls, in order
    encoders,          \* the encoder objects: object id -> parameter name -> value
    doc_encoder,       \* model.doc_encoder (an object id)
    query_encoder,     \* model.query_encoder (an object id)
    shared_weights,    \* model.shared_weights
    root_file,         \* <checkpoint>/pytorch_model.bin
    query_file,        \* <checkpoint>/query/pytorch_model.bin
    files_read,        \* the paths torch.load has read
    load_results,      \* history: every load_state_dict result, in order
    warned             \* the load results passed to _issue_warnings_after_load

cfgVars == <<kind, n_negatives, mse_margin, splade_doc, dense, lambda_d, lambda_q, state_epoch>>
metricVars == <<last_celoss, last_distilloss, last_flops, last_anti_zero, last_docs, last_queries>>
callVars == <<inputs, model_kwargs, ret, raised, calls>>
loadVars == <<encoders, doc_encoder, query_encoder, shared_weights, root_file, query_file,
              files_read, load_results, warned>>
vars == <<cfgVars, metricVars, step, log_history, callVars, loadVars>>

\* Python's None, an attribute never assigned, and no value returned
None == [tag |-> "None"]
Unset == [tag |-> "unset"]
NoReturn == << >>

(***************************************************************************)
(* Batches.  A batch carries the keys of the inputs dict, the output the   *)
(* model gives on it (logits for a cross-encoder, queries and docs for a   *)
(* dual encoder) and the teacher scores under the optional key "scores".   *)
(***************************************************************************)
Tensor1(len, vals) == [1..len -> vals]

CrossBatches(sizes, n, withScores) ==
    UNION {
        { [keys |-> {"input_ids", "attention_mask"} \cup (IF withScores THEN {"scores"} ELSE {}),
           logits |-> l, queries |-> << >>, docs |-> << >>, scores |-> t] :
            l \in Tensor1(B * (n + 1), Weights),
            t \in (IF withScores THEN Tensor1(B * (n + 1), TeacherVals) ELSE {<< >>}) }
        : B \in {B \in sizes : B * (n + 1) <= MaxCands} }

DualBatches(sizes, n, withScores, qvals, dvals) ==
    UNION {
        { [keys |-> {"queries", "docs"} \cup (IF withScores THEN {"scores"} ELSE {}),
           logits |-> << >>, queries |-> q, docs |-> d, scores |-> t] :
            q \in [1..B -> [1..Dim -> qvals]],
            d \in [1..B -> [1..(n + 1) -> [1..Dim -> dvals]]],
            t \in (IF withScores THEN Tensor1(B * (n + 1), TeacherVals) ELSE {<< >>}) }
        : B \in {B \in sizes : B * (n + 1) <= MaxCands} }

NoBatch == [keys |-> {}, logits |-> << >>, queries |-> << >>, docs |-> << >>, scores |-> << >>]

(***************************************************************************)
(* compute_loss, as a function of the batch and the trainer's settings.    *)
(***************************************************************************)
Term(name, num, den, v) == [name |-> name, w |-> Quot(num, den), v |-> v]

Raise(e) == [raised |-> e, kwargs |-> {}, loss |-> << >>, m |-> << >>]

\* RerankerTrainer.compute_loss
RerankerOutcome(b) ==
    IF ~ViewOk(b.logits, n_negatives + 1) THEN Raise("RuntimeError")
    ELSE LET cross_encoder_scores == View(b.logits, n_negatives + 1)
             loss == CrossEntropyLoss(cross_encoder_scores)
         IN  [raised |-> "none", kwargs |-> b.keys,
              loss |-> <<Term("ce_loss", 1, 1, loss)>>, m |-> << >>]

\* the distillation term of RerankerTrainer2 and DistilTrainer
MarginMse(scores, teacher_scores) ==
    LET margin_student == BroadcastSub(FirstCol(scores), RestCols(scores))
        margin_teacher == BroadcastSub(FirstCol(teacher_scores), RestCols(teacher_scores))
    IN  MseLossMean(margin_student, margin_teacher)

DistilLossOf(scores, teacher_scores) ==
    IF mse_margin THEN MarginMse(scores, teacher_scores)
    ELSE KlDivLossMean(scores, teacher_scores)

\* RerankerTrainer2.compute_loss
Reranker2Outcome(b) ==
    IF "scores" \notin b.keys THEN Raise("KeyError")
    ELSE IF ~ViewOk(b.logits, n_negatives + 1) THEN Raise("RuntimeError")
    ELSE LET cross_encoder_scores == View(b.logits, n_negatives + 1)
             loss == CrossEntropyLoss(cross_encoder_scores)
         IN  IF Len(b.scores) # Len(b.logits) THEN Raise("RuntimeError")
             ELSE LET teacher_scores == View(b.scores, n_negatives + 1)
                      distil_loss == DistilLossOf(cross_encoder_scores, teacher_scores)
                  IN  [raised |-> "none", kwargs |-> b.keys \ {"scores"},
                       loss |-> <<Term("ce_loss", 1, 10, loss), Term("distil_loss", 9, 10, distil_loss)>>,
                       m |-> [ce_loss |-> loss, distil_loss |-> distil_loss]]

\* the in-batch contrastive loss of the dual encoders
InBatchCe(queries, docs) ==
    LET scores == Bmm(queries, docs)
        scores_positive == FirstCol(scores)
        scores_negative == MatMul(queries, Negatives(docs))
        all_scores == Cat(scores_positive, scores_negative)
    IN  CrossEntropyLoss(all_scores)

\* (mutant) the query L1 added when splade_doc is set
SparsityLossSpladeDocOnly(queries, docs) ==
    LET flops == RatScale(lambda_d, Flops(AllDocs(docs)))
    IN  IF splade_doc THEN RatAdd(flops, RatScale(lambda_q, L1(queries))) ELSE flops

\* flops of the dual encoders: the document FLOPS, and the query L1
SparsityLoss(queries, docs) ==
    LET flops == RatScale(lambda_d, Flops(AllDocs(docs)))
    IN  IF ~splade_doc THEN RatAdd(flops, RatScale(lambda_q, L1(queries))) ELSE flops

\* the values a sparse dual encoder records and adds to the loss
SparseMetrics(queries, docs) ==
    [flops |-> SparsityLoss(queries, docs),
     anti_zero |-> AntiZero(queries, docs),
     L0_d |-> L0(AllDocs(docs)),
     L0_q |-> L0(queries)]

SparseTerms(sm) ==
    IF ~dense THEN <<Term("flops", 1, 1, sm.flops), Term("anti_zero", 1, 1, sm.anti_zero)>>
    ELSE << >>

\* DistilTrainer.compute_loss
DistilOutcome(b) ==
    IF "scores" \notin b.keys THEN Raise("KeyError")
    ELSE LET scores == Bmm(b.queries, b.docs)
         IN  IF Len(b.scores) # Len(Flatten(scores)) THEN Raise("RuntimeError")
             ELSE LET teacher_scores == View(b.scores, Len(b.docs[1]))
                      distil_loss == DistilLossOf(scores, teacher_scores)
                      ce_loss == InBatchCe(b.queries, b.docs)
                      sm == SparseMetrics(b.queries, b.docs)
                  IN  [raised |-> "none", kwargs |-> b.keys \ {"scores"},
                       loss |-> <<Term("ce_loss", 1, 100, ce_loss),
                                  Term("distil_loss", 99, 100, distil_loss)>> \o SparseTerms(sm),
                       m |-> [ce_loss |-> ce_loss, distil_loss |-> distil_loss, sparse |-> sm]]

\* (mutant) the scores key left in the inputs handed to the model
FirstStageOutcomeKeepsScores(b) ==
    LET loss == InBatchCe(b.queries, b.docs)
        sm == SparseMetrics(b.queries, b.docs)
    IN  [raised |-> "none", kwargs |-> b.keys,
         loss |-> <<Term("ce_loss", 1, 1, loss)>> \o SparseTerms(sm),
         m |-> [ce_loss |-> loss, sparse |-> sm]]

\* FirstStageTrainer.compute_loss
FirstStageOutcome(b) ==
    LET loss == InBatchCe(b.queries, b.docs)
        sm == SparseMetrics(b.queries, b.docs)
    IN  [raised |-> "none", kwargs |-> b.keys \ {"scores"},
         loss |-> <<Term("ce_loss", 1, 1, loss)>> \o SparseTerms(sm),
         m |-> [ce_loss |-> loss, sparse |-> sm]]


(***************************************************************************)
(* The metric lists and the log records.                                   *)
(***************************************************************************)
Append1(list, v) == Append(list, v)

SeqToBag(s) ==
    [v \in {s[i] : i \in 1..Len(s)} |-> Cardinality({i \in 1..Len(s) : s[i] = v})]

\* np.mean(list): the sum of the values over their count (nan over no value)
NpMean(list) == [sum |-> SeqToBag(list), n |-> Len(list)]

\* round(epoch, 2), of an epoch in thousandths, in hundredths
Round2(e) ==
    LET q == e \div 10
        r == e % 10
    IN  IF r > 5 \/ (r = 5 /\ q % 2 = 1) THEN q + 1 ELSE q

Epochs == {None, [thousandths |-> 1234]}

EpochEntry == IF state_epoch # None THEN [epoch |-> Round2(state_epoch.thousandths)] ELSE [x \in {} |-> 0]

Compute(m) == [op |-> "compute_loss", m |-> m]
Logged(rec) == [op |-> "log", rec |-> rec]

NumCalls(op) == Cardinality({i \in 1..Len(calls) : calls[i].op = op})

(***************************************************************************)
(* compute_loss.  return_outputs only adds the model's output to what is   *)
(* returned; ret is the loss.                                              *)
(***************************************************************************)
RerankerComputeLoss(b) ==
    /\ kind = "RerankerTrainer"
    /\ \E o \in {RerankerOutcome(b)} :
           /\ raised' = o.raised
           /\ model_kwargs' = b.keys
           /\ IF o.raised = "none"
              THEN /\ ret' = o.loss
                   /\ calls' = Append(calls, Compute(o.m))
              ELSE UNCHANGED <<ret, calls>>
    /\ UNCHANGED <<cfgVars, metricVars, step, log_history, loadVars>>

Reranker2ComputeLoss(b) ==
    /\ kind = "RerankerTrainer2"
    /\ \E o \in {Reranker2Outcome(b)} :
           /\ raised' = o.raised
           /\ model_kwargs' = IF o.raised = "KeyError" THEN model_kwargs ELSE b.keys \ {"scores"}
           /\ IF o.raised = "none"
              THEN /\ last_celoss' = o.m.ce_loss
                   /\ last_distilloss' = o.m.distil_loss
                   /\ ret' = o.loss
                   /\ calls' = Append(calls, Compute(o.m))
              ELSE UNCHANGED <<last_celoss, last_distilloss, ret, calls>>
    /\ UNCHANGED <<cfgVars, last_flops, last_anti_zero, last_docs, last_queries,
                   step, log_history, loadVars>>

\* (mutant) the appends made for a dense model too
SparseAppendsAlways(sm) ==
    /\ last_docs' = Append1(last_docs, sm.L0_d)
    /\ last_queries' = Append1(last_queries, sm.L0_q)
    /\ last_flops' = Append1(last_flops, sm.flops)
    /\ last_anti_zero' = Append1(last_anti_zero, sm.anti_zero)

\* the appends of a sparse dual encoder
SparseAppends(sm) ==
    IF ~dense
    THEN /\ last_docs' = Append1(last_docs, sm.L0_d)
         /\ last_queries' = Append1(last_queries, sm.L0_q)
         /\ last_flops' = Append1(last_flops, sm.flops)
         /\ last_anti_zero' = Append1(last_anti_zero, sm.anti_zero)
    ELSE UNCHANGED <<last_docs, last_queries, last_flops, last_anti_zero>>

DistilComputeLoss(b) ==
    /\ kind = "DistilTrainer"
    /\ \E o \in {DistilOutcome(b)} :
           /\ raised' = o.raised
           /\ step' = IF o.raised = "KeyError" THEN step ELSE step + 1
           /\ model_kwargs' = IF o.raised = "KeyError" THEN model_kwargs ELSE b.keys \ {"scores"}
           /\ IF o.raised = "none"
              THEN /\ last_celoss' = Append1(last_celoss, o.m.ce_loss)
                   /\ last_distilloss' = Append1(last_distilloss, o.m.distil_loss)
                   /\ SparseAppends(o.m.sparse)
                   /\ ret' = o.loss
                   /\ calls' = Append(calls, Compute(o.m))
              ELSE UNCHANGED <<metricVars, ret, calls>>
    /\ UNCHANGED <<cfgVars, log_history, loadVars>>

FirstStageComputeLoss(b) ==
    /\ kind = "FirstStageTrainer"
    /\ \E o \in {FirstStageOutcome(b)} :
           /\ raised' = o.raised
           /\ step' = step + 1
           /\ model_kwargs' = o.kwargs
           /\ last_celoss' = Append1(last_celoss, o.m.ce_loss)
           /\ SparseAppends(o.m.sparse)
           /\ ret' = o.loss
           /\ calls' = Append(calls, Compute(o.m))
    /\ UNCHANGED <<cfgVars, last_distilloss, log_history, loadVars>>

(***************************************************************************)
(* log.  The logs dict arrives empty; the record's "step" entry is the     *)
(* engine's global_step and on_log is the engine's callback chain.         *)
(***************************************************************************)
\* (mutant) a list left as it is by log
ClearedKeeps(list) == list

\* list = list(): the list after log
Cleared(list) == << >>

\* (mutant) the two values under each other's name
Reranker2RecordSwapped ==
    EpochEntry @@ [ce_loss |-> last_distilloss, distil_loss |-> last_celoss]

\* the record RerankerTrainer2.log appends
Reranker2Record ==
    EpochEntry @@ [ce_loss |-> last_celoss, distil_loss |-> last_distilloss]

Reranker2Log ==
    /\ kind = "RerankerTrainer2"
    /\ IF last_celoss = Unset \/ last_distilloss = Unset
       THEN /\ raised' = "AttributeError"
            /\ UNCHANGED <<log_history, calls>>
       ELSE /\ raised' = "none"
            /\ log_history' = Append(log_history, Reranker2Record)
            /\ calls' = Append(calls, Logged(Reranker2Record))
    /\ UNCHANGED <<cfgVars, metricVars, step, inputs, model_kwargs, ret, loadVars>>

SparseEntries ==
    IF ~dense
    THEN [L0_d |-> NpMean(last_docs), L0_q |-> NpMean(last_queries),
          flops_loss |-> NpMean(last_flops), anti_zero |-> NpMean(last_anti_zero)]
    ELSE [x \in {} |-> 0]

DistilRecord ==
    EpochEntry @@ SparseEntries
        @@ [ce_loss |-> NpMean(last_celoss), distil_loss |-> NpMean(last_distilloss)]

DistilLog ==
    /\ kind = "DistilTrainer"
    /\ raised' = "none"
    /\ log_history' = Append(log_history, DistilRecord)
    /\ calls' = Append(calls, Logged(DistilRecord))
    /\ last_docs' = Cleared(last_docs)
    /\ last_queries' = Cleared(last_queries)
    /\ last_flops' = Cleared(last_flops)
    /\ last_anti_zero' = Cleared(last_anti_zero)
    /\ last_celoss' = Cleared(last_celoss)
    /\ last_distilloss' = Cleared(last_distilloss)
    /\ UNCHANGED <<cfgVars, step, inputs, model_kwargs, ret, loadVars>>

FirstStageRecord ==
    EpochEntry @@ SparseEntries @@ [ce_loss |-> NpMean(last_celoss)]

FirstStageLog ==
    /\ kind = "FirstStageTrainer"
    /\ raised' = "none"
    /\ log_history' = Append(log_history, FirstStageRecord)
    /\ calls' = Append(calls, Logged(FirstStageRecord))
    /\ last_docs' = Cleared(last_docs)
    /\ last_queries' = Cleared(last_queries)
    /\ last_flops' = Cleared(last_flops)
    /\ last_anti_zero' = Cleared(last_anti_zero)
    /\ last_celoss' = Cleared(last_celoss)
    /\ UNCHANGED <<cfgVars, last_distilloss, step, inputs, model_kwargs, ret, loadVars>>

(***************************************************************************)
(* Construction.                                                           *)
(***************************************************************************)
Kinds == {"RerankerTrainer", "RerankerTrainer2", "DistilTrainer", "FirstStageTrainer"}
DualKinds == {"DistilTrainer", "FirstStageTrainer"}

\* __init__ of the four trainers
InitTrainer ==
    /\ kind \in Kinds
    /\ n_negatives \in 0..MaxNeg
    /\ mse_margin \in (IF kind \in {"RerankerTrainer2", "DistilTrainer"} THEN BOOLEAN ELSE {FALSE})
    /\ splade_doc \in (IF kind \in DualKinds THEN BOOLEAN ELSE {FALSE})
    /\ dense \in (IF kind \in DualKinds THEN BOOLEAN ELSE {FALSE})
    /\ lambda_d = 2
    /\ lambda_q = 3
    /\ last_celoss = (IF kind \in DualKinds THEN << >> ELSE Unset)
    /\ last_distilloss = (IF kind = "DistilTrainer" THEN << >> ELSE Unset)
    /\ last_flops = << >>
    /\ last_anti_zero = << >>
    /\ last_docs = << >>
    /\ last_queries = << >>
    /\ step = 0
    /\ log_history = << >>
    /\ model_kwargs = {}
    /\ ret = NoReturn
    /\ raised = "none"
    /\ calls = << >>

\* no checkpoint is involved
NoLoad ==
    /\ encoders = << >>
    /\ doc_encoder = 0
    /\ query_encoder = 0
    /\ shared_weights = FALSE
    /\ root_file = << >>
    /\ query_file = << >>
    /\ files_read = {}
    /\ load_results = << >>
    /\ warned = << >>

(***************************************************************************)
(* The training loop: the engine calls compute_loss once per batch and log *)
(* once per logging interval, serially, on one trainer.                    *)
(***************************************************************************)
\* the batches of the loop: one query, every document the same vector,
\* the teacher scoring every candidate alike
LoopDual(w, v, withScores) ==
    [keys |-> {"queries", "docs"} \cup (IF withScores THEN {"scores"} ELSE {}),
     logits |-> << >>,
     queries |-> <<[k \in 1..Dim |-> w]>>,
     docs |-> <<[j \in 1..(n_negatives + 1) |-> [k \in 1..Dim |-> v]]>>,
     scores |-> IF withScores THEN [j \in 1..(n_negatives + 1) |-> 0] ELSE << >>]

LoopCross(w) ==
    [keys |-> {"input_ids", "attention_mask", "scores"},
     logits |-> [j \in 1..(n_negatives + 1) |-> IF j = 1 THEN w ELSE 0],
     queries |-> << >>, docs |-> << >>,
     scores |-> [j \in 1..(n_negatives + 1) |-> 0]]

LoopBatches ==
    IF kind = "DistilTrainer" THEN {LoopDual(w, v, TRUE) : w \in Weights, v \in Weights}
    ELSE IF kind = "FirstStageTrainer"
    THEN {LoopDual(w, v, s) : w \in Weights, v \in Weights, s \in BOOLEAN}
    ELSE {LoopCross(w) : w \in Weights}

Init ==
    /\ InitTrainer
    /\ kind # "RerankerTrainer"
    /\ state_epoch \in Epochs
    /\ inputs = NoBatch
    /\ NoLoad

Next ==
    \/ /\ NumCalls("compute_loss") < MaxSteps
       /\ \E b \in LoopBatches : Reranker2ComputeLoss(b)
       /\ UNCHANGED inputs
    \/ /\ NumCalls("compute_loss") < MaxSteps
       /\ \E b \in LoopBatches : DistilComputeLoss(b)
       /\ UNCHANGED inputs
    \/ /\ NumCalls("compute_loss") < MaxSteps
       /\ \E b \in LoopBatches : FirstStageComputeLoss(b)
       /\ UNCHANGED inputs
    \/ NumCalls("log") < MaxLogs /\ Reranker2Log
    \/ NumCalls("log") < MaxLogs /\ DistilLog
    \/ NumCalls("log") < MaxLogs /\ FirstStageLog

Spec == Init /\ [][Next]_vars

(***************************************************************************)
(* One compute_loss call on every batch of the bounds.                     *)
(***************************************************************************)
Batches ==
    IF kind \in DualKinds
    THEN DualBatches(BatchSizes, n_negatives, TRUE, Weights, Weights)
            \cup DualBatches(BatchSizes, n_negatives, FALSE, Weights, Weights)
    ELSE CrossBatches(BatchSizes, n_negatives, TRUE)
            \cup CrossBatches(BatchSizes, n_negatives, FALSE)

InitLoss ==
    /\ InitTrainer
    /\ state_epoch = None
    /\ inputs \in Batches
    /\ NoLoad

NextLoss ==
    \/ ret = NoReturn /\ RerankerComputeLoss(inputs) /\ UNCHANGED inputs
    \/ ret = NoReturn /\ Reranker2ComputeLoss(inputs) /\ UNCHANGED inputs
    \/ ret = NoReturn /\ DistilComputeLoss(inputs) /\ UNCHANGED inputs
    \/ ret = NoReturn /\ FirstStageComputeLoss(inputs) /\ UNCHANGED inputs

SpecLoss == InitLoss /\ [][NextLoss]_vars

(***************************************************************************)
(* BaseTrainer._load_from_checkpoint.  The model argument defaults to      *)
(* self.model; one model is modelled.                                      *)
(***************************************************************************)
ParamNames == {"embeddings", "head"}
FileKeys == ParamNames \cup {"pooler"}
FileVals == {1, 2}

WEIGHTS_NAME == "pytorch_model.bin"
QueryPath == "query/pytorch_model.bin"

NoFile == [tag |-> "no file"]
StateDicts == UNION {[ks -> FileVals] : ks \in SUBSET FileKeys}

\* the weights of an encoder before the restore
FreshWeights == [k \in ParamNames |-> 0]

\* module.load_state_dict(state_dict, False): the weights afterwards
LoadedWeights(weights, state_dict) ==
    [k \in DOMAIN weights |-> IF k \in DOMAIN state_dict THEN state_dict[k] ELSE weights[k]]

\* module.load_state_dict(state_dict, False): the result it returns
LoadResult(id, weights, state_dict) ==
    [into |-> id,
     missing_keys |-> DOMAIN weights \ DOMAIN state_dict,
     unexpected_keys |-> DOMAIN state_dict \ DOMAIN weights]

\* the load result handed to self._issue_warnings_after_load
WarnedResult(doc_result, query_result) ==
    IF shared_weights THEN doc_result ELSE query_result

\* (mutant) the query encoder never aliased
RestoredQueryEncoderNoAlias == query_encoder

\* model.query_encoder after the restore
RestoredQueryEncoder == IF shared_weights THEN doc_encoder ELSE query_encoder

LoadFromCheckpoint ==
    /\ calls = << >>
    /\ raised = "none"
    /\ LET doc_result == LoadResult(doc_encoder, encoders[doc_encoder], root_file)
           after_doc == [encoders EXCEPT ![doc_encoder] = LoadedWeights(@, root_file)]
       IN  IF shared_weights
           THEN /\ files_read' = files_read \cup {WEIGHTS_NAME}
                /\ encoders' = after_doc
                /\ query_encoder' = RestoredQueryEncoder
                /\ load_results' = load_results \o <<doc_result>>
                /\ warned' = Append(warned, WarnedResult(doc_result, doc_result))
                /\ calls' = <<[op |-> "_load_from_checkpoint"]>>
                /\ UNCHANGED raised
           ELSE IF query_file = NoFile
           THEN /\ files_read' = files_read \cup {WEIGHTS_NAME}
                /\ encoders' = after_doc
                /\ load_results' = load_results \o <<doc_result>>
                /\ raised' = "FileNotFoundError"
                /\ UNCHANGED <<query_encoder, warned, calls>>
           ELSE LET query_result ==
                        LoadResult(query_encoder, after_doc[query_encoder], query_file)
                IN  /\ files_read' = files_read \cup {WEIGHTS_NAME, QueryPath}
                    /\ encoders' = [after_doc EXCEPT ![query_encoder] = LoadedWeights(@, query_file)]
                    /\ query_encoder' = RestoredQueryEncoder
                    /\ load_results' = load_results \o <<doc_result, query_result>>
                    /\ warned' = Append(warned, WarnedResult(doc_result, query_result))
                    /\ calls' = <<[op |-> "_load_from_checkpoint"]>>
                    /\ UNCHANGED raised
    /\ UNCHANGED <<cfgVars, metricVars, step, log_history, inputs, model_kwargs, ret,
                   doc_encoder, shared_weights, root_file, query_file>>

\* a model whose encoders share weights holds one encoder, or two that the
\* restore is to alias; a model whose encoders do not holds two
InitLoad ==
    /\ kind \in DualKinds
    /\ n_negatives = 0
    /\ mse_margin = FALSE
    /\ splade_doc = FALSE
    /\ dense = FALSE
    /\ lambda_d = 2
    /\ lambda_q = 3
    /\ state_epoch = None
    /\ last_celoss = << >>
    /\ last_distilloss = << >>
    /\ last_flops = << >>
    /\ last_anti_zero = << >>
    /\ last_docs = << >>
    /\ last_queries = << >>
    /\ step = 0
    /\ log_history = << >>
    /\ inputs = NoBatch
    /\ model_kwargs = {}
    /\ ret = NoReturn
    /\ raised = "none"
    /\ calls = << >>
    /\ shared_weights \in BOOLEAN
    /\ doc_encoder = 1
    /\ query_encoder \in (IF shared_weights THEN {1, 2} ELSE {2})
    /\ encoders = [id \in {doc_encoder, query_encoder} |-> FreshWeights]
    /\ root_file \in StateDicts
    /\ query_file \in StateDicts \cup {NoFile}
    /\ files_read = {}
    /\ load_results = << >>
    /\ warned = << >>

NextLoad == LoadFromCheckpoint

SpecLoad == InitLoad /\ [][NextLoad]_vars

(***************************************************************************)
(* Properties of the training loop (Spec).                                 *)
(***************************************************************************)
\* the index of the last log call before call i, or 0
PrevLog(i) ==
    LET logs == {j \in 1..(i - 1) : calls[j].op = "log"}
    IN  IF logs = {} THEN 0 ELSE CHOOSE j \in logs : \A k \in logs : k <= j

\* the compute_loss calls strictly between calls lo and hi, in order
ComputesBetween(lo, hi) ==
    SelectSeq(SubSeq(calls, lo + 1, hi - 1), LAMBDA c : c.op = "compute_loss")

\* the compute_loss calls since the last log call
Pending == ComputesBetween(PrevLog(Len(calls) + 1), Len(calls) + 1)

MetricOf(m, name) ==
    CASE name = "ce_loss" -> m.ce_loss
      [] name = "distil_loss" -> m.distil_loss
      [] name = "L0_d" -> m.sparse.L0_d
      [] name = "L0_q" -> m.sparse.L0_q
      [] name = "flops_loss" -> m.sparse.flops
      [] name = "anti_zero" -> m.sparse.anti_zero

ValuesOf(cs, name) == [j \in 1..Len(cs) |-> MetricOf(cs[j].m, name)]

RECURSIVE BagOfSeq(_)
BagOfSeq(vals) ==
    IF vals = << >> THEN EmptyBag ELSE SetToBag({Head(vals)}) (+) BagOfSeq(Tail(vals))

SparseNames == {"L0_d", "L0_q", "flops_loss", "anti_zero"}

\* the metrics a dual-encoder trainer reports
Reported ==
    {"ce_loss"} \cup (IF kind = "DistilTrainer" THEN {"distil_loss"} ELSE {})
                \cup (IF ~dense THEN SparseNames ELSE {})

\* the metrics a dual-encoder trainer keeps a list for
Lists ==
    SparseNames \cup {"ce_loss"} \cup (IF kind = "DistilTrainer" THEN {"distil_loss"} ELSE {})

ListOf(name) ==
    CASE name = "ce_loss" -> last_celoss
      [] name = "distil_loss" -> last_distilloss
      [] name = "L0_d" -> last_docs
      [] name = "L0_q" -> last_queries
      [] name = "flops_loss" -> last_flops
      [] name = "anti_zero" -> last_anti_zero

LogCalls == {i \in 1..Len(calls) : calls[i].op = "log"}

RECURSIVE SumBags(_)
SumBags(bs) == IF bs = << >> THEN EmptyBag ELSE Head(bs) (+) SumBags(Tail(bs))

\* C1: in DistilTrainer and FirstStageTrainer every compute_loss appends one
\* value per reported metric, every log emits for every reported metric the
\* mean of exactly the values appended since the previous log (or since
\* construction) and leaves the lists empty: over the whole run every value
\* is in exactly one record or still in its list.
C1_FlushSinceLastLog ==
    kind \in DualKinds =>
        /\ \A name \in Reported : ListOf(name) = ValuesOf(Pending, name)
        /\ \A i \in LogCalls : \A name \in Reported :
              LET vals == ValuesOf(ComputesBetween(PrevLog(i), i), name)
              IN  calls[i].rec[name] = [sum |-> BagOfSeq(vals), n |-> Len(vals)]
        /\ (calls # << >> /\ calls[Len(calls)].op = "log") =>
              \A name \in Lists : ListOf(name) = << >>
        /\ log_history = [i \in 1..Len(log_history) |->
                             SelectSeq(calls, LAMBDA c : c.op = "log")[i].rec]
        /\ \A name \in Reported :
              SumBags([i \in 1..Len(log_history) |-> log_history[i][name].sum])
                    (+) BagOfSeq(ListOf(name))
                 = BagOfSeq(ValuesOf(SelectSeq(calls, LAMBDA c : c.op = "compute_loss"), name))

\* two flushes of a sparse DistilTrainer, each over one step of its own
C1_Witness ==
    /\ kind = "DistilTrainer"
    /\ ~dense
    /\ Len(log_history) = 2
    /\ log_history[1].ce_loss.n = 1
    /\ log_history[2].ce_loss.n = 1
    /\ log_history[1].flops_loss # log_history[2].flops_loss

\* the last compute_loss call before call i, or 0
PrevCompute(i) ==
    LET cs == {j \in 1..(i - 1) : calls[j].op = "compute_loss"}
    IN  IF cs = {} THEN 0 ELSE CHOOSE j \in cs : \A k \in cs : k <= j

\* a scalar v is the mean of vals: here, when vals are all v
IsMeanOf(v, vals) == vals # << >> /\ \A j \in 1..Len(vals) : vals[j] = v

C9_LogAlwaysHasValues ==
    /\ raised # "AttributeError"
    /\ kind \in DualKinds =>
          \A i \in 1..Len(log_history) : \A name \in Reported : log_history[i][name].n >= 1

\* C10: in DistilTrainer and FirstStageTrainer, between calls, the lists of a
\* sparse trainer all hold one value per compute_loss call since the last
\* log; those of a dense trainer's sparsity metrics stay empty and are not
\* in any record; step counts all the compute_loss calls and log never
\* resets it.
C10_ListLengthsAndStep ==
    kind \in DualKinds =>
        /\ \A name \in Reported : Len(ListOf(name)) = Len(Pending)
        /\ dense => \A name \in SparseNames : ListOf(name) = << >>
        /\ dense => \A i \in 1..Len(log_history) : DOMAIN log_history[i] \cap SparseNames = {}
        /\ ~dense => \A i \in 1..Len(log_history) : SparseNames \subseteq DOMAIN log_history[i]
        /\ step = NumCalls("compute_loss")

\* a sparse trainer after a step, a log and a step
C10_Witness ==
    /\ kind = "FirstStageTrainer"
    /\ ~dense
    /\ step = 2
    /\ Len(log_history) = 1
    /\ Len(last_celoss) = 1
    /\ Len(last_flops) = 1

(***************************************************************************)
(* Properties of one compute_loss call (SpecLoss).                         *)
(***************************************************************************)
Returned == ret # NoReturn

TermNames(loss) == {loss[i].name : i \in 1..Len(loss)}

\* the value of the term of that name in a returned loss
TermOf(loss, name) == loss[CHOOSE i \in 1..Len(loss) : loss[i].name = name]

\* lambda_d * FLOPS(docs), plus lambda_q * L1(queries) when withL1
ExpectedFlops(withL1) ==
    LET f == RatScale(lambda_d, Flops(Flatten(inputs.docs)))
    IN  IF withL1 THEN RatAdd(f, RatScale(lambda_q, L1(inputs.queries))) ELSE f

\* C4 as stated: for a sparse model the query L1 penalty (weight lambda_q) is
\* in the sparsity loss only when splade_doc is set, the document FLOPS
\* (weight lambda_d) in either mode; for a dense model the loss holds no
\* sparsity and no anti-collapse term.
C4_L1OnlyWhenSpladeDoc ==
    (kind \in DualKinds /\ Returned) =>
        /\ ~dense => /\ {"flops", "anti_zero"} \subseteq TermNames(ret)
                     /\ TermOf(ret, "flops").v = ExpectedFlops(splade_doc)
        /\ dense => TermNames(ret) \cap {"flops", "anti_zero"} = {}

\* C4 as amended: for a sparse model the query L1 penalty (weight lambda_q)
\* is in the sparsity loss only when splade_doc is NOT set, the document
\* FLOPS (weight lambda_d) in either mode, and both it and the anti-collapse
\* term are added with weight 1; for a dense model the loss holds no
\* sparsity and no anti-collapse term.
C4_L1UnlessSpladeDoc ==
    (kind \in DualKinds /\ Returned) =>
        /\ ~dense => /\ {"flops", "anti_zero"} \subseteq TermNames(ret)
                     /\ TermOf(ret, "flops").v = ExpectedFlops(~splade_doc)
                     /\ TermOf(ret, "flops").w = Quot(1, 1)
                     /\ TermOf(ret, "anti_zero").w = Quot(1, 1)
        /\ dense => TermNames(ret) \cap {"flops", "anti_zero"} = {}

\* a sparse model with query sparsification on nonzero queries
C4_Witness ==
    /\ kind = "DistilTrainer"
    /\ Returned
    /\ ~dense
    /\ ~splade_doc
    /\ ~IsZero(L1(inputs.queries))
    /\ TermOf(ret, "flops").v # ExpectedFlops(FALSE)

\* the batch with other teacher scores, or with none
WithScores(b, t) == [b EXCEPT !.keys = @ \cup {"scores"}, !.scores = t]
WithoutScores(b) == [b EXCEPT !.keys = @ \ {"scores"}, !.scores = << >>]

\* C5: FirstStageTrainer.compute_loss takes a batch without the "scores"
\* field without raising and a batch with it alike: the model is called
\* without a "scores" key and the loss is the same whatever the teacher
\* scores are.
C5_ScoresOptionalAndUnused ==
    kind = "FirstStageTrainer" =>
        /\ raised = "none"
        /\ Returned =>
              /\ model_kwargs = inputs.keys \ {"scores"}
              /\ "scores" \notin model_kwargs
              /\ ret = FirstStageOutcome(WithoutScores(inputs)).loss
              /\ \A t \in Tensor1(Len(Flatten(inputs.docs)) \div Dim, TeacherVals) :
                    ret = FirstStageOutcome(WithScores(inputs, t)).loss

\* a batch without the field has been processed
C5_Witness ==
    /\ kind = "FirstStageTrainer"
    /\ "scores" \notin inputs.keys
    /\ Returned
    /\ raised = "none"

\* the scores of the student on the batch, and the teacher's, as matrices
StudentScores ==
    IF kind = "DistilTrainer" THEN Bmm(inputs.queries, inputs.docs)
    ELSE View(inputs.logits, n_negatives + 1)

TeacherScores == View(inputs.scores, n_negatives + 1)

MarginsEqual ==
    \A i \in 1..Len(StudentScores) : \A j \in 2..(n_negatives + 1) :
        StudentScores[i][1] - StudentScores[i][j] = TeacherScores[i][1] - TeacherScores[i][j]

\* C6: with mse_margin set, the distillation loss of RerankerTrainer2 and
\* DistilTrainer is exactly zero whenever the student margins equal the
\* teacher margins, for every batch size and every n_negatives, 0 included.
C6_ZeroOnEqualMargins ==
    (kind \in {"RerankerTrainer2", "DistilTrainer"} /\ mse_margin /\ Returned /\ MarginsEqual)
        => IsZero(TermOf(ret, "distil_loss").v)

\* the same with at least one negative per query
C6_ZeroOnEqualMarginsWithNegatives ==
    (kind \in {"RerankerTrainer2", "DistilTrainer"} /\ mse_margin /\ Returned /\ MarginsEqual
        /\ n_negatives >= 1)
        => IsZero(TermOf(ret, "distil_loss").v)

\* C7: with n_negatives = 0 the contrastive loss is zero in every trainer:
\* the scores have one column per query, the positive, and the in-batch
\* negatives of the dual encoders add none.
C7_ZeroContrastiveWithoutNegatives ==
    (n_negatives = 0 /\ Returned) =>
        /\ CeIsZero(TermOf(ret, "ce_loss").v)
        /\ \A i \in 1..Len(TermOf(ret, "ce_loss").v.rows) :
              Len(TermOf(ret, "ce_loss").v.rows[i]) = 1

\* a dual encoder on two queries without negatives
C7_Witness ==
    /\ kind = "FirstStageTrainer"
    /\ n_negatives = 0
    /\ Len(inputs.queries) = 2
    /\ inputs.queries[1] # inputs.queries[2]
    /\ Returned

(***************************************************************************)
(* Properties of the checkpoint restore (SpecLoad).                        *)
(***************************************************************************)
Restored == calls # << >>

\* the encoder holds the file's value for every parameter the file names
\* and its value from before the restore for every other
HoldsFile(id, file) ==
    \A k \in ParamNames :
        encoders[id][k] = IF k \in DOMAIN file THEN file[k] ELSE FreshWeights[k]

\* C2: after a completed restore with shared_weights the query encoder is
\* the document encoder, holding the weights of the checkpoint root, and the
\* query subdirectory was not read; without shared_weights the document
\* encoder holds the root's weights, the query encoder those of the query
\* subdirectory, and the two are distinct objects.
C2_RestoredEncoders ==
    Restored =>
        /\ HoldsFile(doc_encoder, root_file)
        /\ shared_weights => /\ query_encoder = doc_encoder
                             /\ files_read = {WEIGHTS_NAME}
        /\ ~shared_weights => /\ query_encoder # doc_encoder
                              /\ HoldsFile(query_encoder, query_file)
                              /\ files_read = {WEIGHTS_NAME, QueryPath}

\* a shared-weights model whose query encoder was an object of its own
C2_Witness ==
    /\ Restored
    /\ shared_weights
    /\ DOMAIN encoders = {1, 2}
    /\ query_encoder = doc_encoder
    /\ DOMAIN root_file = ParamNames
    /\ \A k \in ParamNames : encoders[doc_encoder][k] # FreshWeights[k]

\* C3: a missing or unexpected weight name never aborts the restore, and
\* every load result of the restore is passed to the warning step, with and
\* without shared weights.
C3_EveryLoadResultWarned ==
    /\ raised # "none" => query_file = NoFile
    /\ Restored =>
          \A i \in 1..Len(load_results) :
              \E j \in 1..Len(warned) : warned[j] = load_results[i]
=============================================================================
